---- MODULE Spec2Model ----
(***************************************************************************)
(* Model of components/common/src/types.rs: the typed configuration values *)
(* of the Supervisor (event-stream metadata, Automate auth token, event    *)
(* stream connect method, the gossip / HTTP / control listen addresses)    *)
(* and their resolution from the command line and from the environment.    *)
(*                                                                         *)
(* Rust strings are TLA+ strings; their characters are read with SubSeq.   *)
(* A u64 is kept as its canonical decimal numeral (no sign, no leading     *)
(* zero), so that the whole 64-bit range is represented exactly (U64Max).  *)
(***************************************************************************)
EXTENDS Integers, Sequences, FiniteSets, TLC

VARIABLES
    call,     \* the last call of a parsing / rendering function and its result
    cli,      \* the outcome of command-line parsing (the ArgMatches)
    built,    \* what From<&ArgMatches> constructed from cli
    env,      \* the process environment: variable name -> value or Unset
    lock,     \* holder of the HAB_TESTING_THINGIE lock
    tests,    \* the env_config test threads: position and observed values
    addrs,    \* the constructed listen address objects
    last      \* the last address / resolver operation and what it returned

vars == <<call, cli, built, env, lock, tests, addrs, last>>

cliVars == <<call, cli, built>>
envVars == <<env, lock, tests, addrs, last>>

----------------------------------------------------------------------------
(* Bounds of the model. *)

\* longest generated input string
MaxLen == 3
\* most values of the repeated EVENT_STREAM_METADATA argument
MaxArgs == 2

----------------------------------------------------------------------------
(* Strings. *)

Alphabet == {"a", "=", "0", "7"}

RECURSIVE StrsUpTo(_, _)
StrsUpTo(alphabet, n) ==
    IF n = 0 THEN {""}
    ELSE LET shorter == StrsUpTo(alphabet, n - 1)
         IN  shorter \cup {s \o c : s \in shorter, c \in alphabet}

\* Inputs longer than MaxLen, or over other characters, that the cases of
\* the parsers need (three-part tokens, the ends of the u64 range, the
\* literals of the tests).
ExtraInputs ==
    { "a=b=c", "key=value", "k==v", "=value", "key=",
      "123", "5", "2112", "abc", "I'm not a number", "-0", "-1", " 5", "5 ",
      "00000", "+00", "+123", "+", "+0", "+7", "++7", "+a", "7+", "+=",
      "18446744073709551615", "18446744073709551616",
      "0018446744073709551615", "+18446744073709551615",
      "18446744073709551620", "28446744073709551615",
      "99999999999999999999", "184467440737095516150",
      "99999999999999999999a", "1844674407370955161" }

Strings == StrsUpTo(Alphabet, MaxLen) \cup ExtraInputs

Char(s, i) == SubSeq(s, i, i)
Suffix(s, i) == SubSeq(s, i, Len(s))

Ok(v) == [ok |-> TRUE, val |-> v]
Err(e) == [ok |-> FALSE, err |-> e]

\* str::split(sep): the pieces between the occurrences of sep, in order;
\* a string without sep is its own single piece.
RECURSIVE Split(_, _)
Split(s, sep) ==
    IF \E i \in 1..Len(s) : Char(s, i) = sep
    THEN LET i == CHOOSE j \in 1..Len(s) :
                      /\ Char(s, j) = sep
                      /\ \A k \in 1..(j - 1) : Char(s, k) # sep
         IN  <<SubSeq(s, 1, i - 1)>> \o Split(Suffix(s, i + 1), sep)
    ELSE <<s>>

----------------------------------------------------------------------------
(* u64 and its parser. *)

Digits == {"0", "1", "2", "3", "4", "5", "6", "7", "8", "9"}

DigitVal(c) ==
    CASE c = "0" -> 0 [] c = "1" -> 1 [] c = "2" -> 2 [] c = "3" -> 3
      [] c = "4" -> 4 [] c = "5" -> 5 [] c = "6" -> 6 [] c = "7" -> 7
      [] c = "8" -> 8 [] c = "9" -> 9

\* u64::MAX = 2^64 - 1
U64Max == "18446744073709551615"

\* a < b for canonical numerals
RECURSIVE NumLess(_, _)
NumLess(a, b) ==
    IF Len(a) # Len(b) THEN Len(a) < Len(b)
    ELSE IF Len(a) = 0 THEN FALSE
    ELSE IF Char(a, 1) # Char(b, 1) THEN DigitVal(Char(a, 1)) < DigitVal(Char(b, 1))
    ELSE NumLess(Suffix(a, 2), Suffix(b, 2))

\* acc.checked_mul(10)?.checked_add(d)?  on canonical numerals
CheckedMulAdd(acc, d) ==
    LET r == IF acc = "0" THEN d ELSE acc \o d
    IN  IF NumLess(U64Max, r) THEN Err("PosOverflow") ELSE Ok(r)

\* the digit loop of from_str_radix: the first character that is no digit, or
\* the first overflow, ends it with the error
RECURSIVE ParseDigits(_, _)
ParseDigits(acc, rest) ==
    IF rest = "" THEN Ok(acc)
    ELSE IF Char(rest, 1) \notin Digits THEN Err("InvalidDigit")
    ELSE LET r == CheckedMulAdd(acc, Char(rest, 1))
         IN  IF r.ok THEN ParseDigits(r.val, Suffix(rest, 2)) ELSE r

\* str::parse::<u64>(): an optional '+', then one or more decimal digits
ParseU64(s) ==
    IF s = "" THEN Err("Empty")
    ELSE LET digits == IF Char(s, 1) = "+" THEN Suffix(s, 2) ELSE s
         IN  IF digits = "" THEN Err("Empty") ELSE ParseDigits("0", digits)

----------------------------------------------------------------------------
(* EventStreamMetadata *)

InvalidPairMessage ==
    "Invalid key-value pair given (must be '='-delimited pair of non-empty strings): "

\* split_raw cutting at the first separator only, as splitn(2, '=') does
split_raw_first(raw) ==
    LET seps == {i \in 1..Len(raw) : Char(raw, i) = "="}
    IN  IF seps = {} THEN Err(InvalidPairMessage \o raw)
        ELSE LET i == CHOOSE j \in seps : \A k \in seps : j <= k
                 key == SubSeq(raw, 1, i - 1)
                 value == Suffix(raw, i + 1)
             IN  IF key # "" /\ value # "" THEN Ok(<<key, value>>)
                 ELSE Err(InvalidPairMessage \o raw)

split_raw(raw) ==
    LET parts == Split(raw, "=")
    IN  IF Len(parts) = 2 /\ parts[1] # "" /\ parts[2] # ""
        THEN Ok(<<parts[1], parts[2]>>)
        ELSE Err(InvalidPairMessage \o raw)

\* validate() accepting everything that holds a separator
MetadataValidateContains(value) ==
    IF \E i \in 1..Len(value) : Char(value, i) = "="
    THEN Ok(<<>>)
    ELSE Err(InvalidPairMessage \o value)

MetadataValidate(value) ==
    LET r == split_raw(value) IN IF r.ok THEN Ok(<<>>) ELSE r

MetadataPanic == "EVENT_STREAM_METADATA should be validated at this point"

\* Result::expect: the value, or a panic with the message
split_validated(validated_input) ==
    LET r == split_raw(validated_input)
    IN  IF r.ok THEN [panic |-> FALSE, val |-> r.val]
        ELSE [panic |-> TRUE, msg |-> MetadataPanic]

\* HashMap::insert: a later pair replaces an earlier one of the same key
Insert(m, k, v) == [x \in DOMAIN m \cup {k} |-> IF x = k THEN v ELSE m[x]]

EmptyMap == [x \in {} |-> ""]

RECURSIVE CollectMap(_, _)
CollectMap(m, pairs) ==
    IF pairs = <<>> THEN m
    ELSE CollectMap(Insert(m, pairs[1][1], pairs[1][2]), Tail(pairs))

----------------------------------------------------------------------------
(* AutomateAuthToken *)

AutomateAuthToken(s) == [inner |-> s]

InvalidEventStreamToken(s) == [error |-> "InvalidEventStreamToken", input |-> s]

\* from_str without the emptiness test
TokenFromStrUnchecked(s) == Ok(AutomateAuthToken(s))

TokenFromStr(s) ==
    IF s = "" THEN Err(InvalidEventStreamToken(s)) ELSE Ok(AutomateAuthToken(s))

\* Display: write!(f, "{}", self.0)
TokenDisplay(token) == token.inner

\* Error::to_string() of the invalid-token error
ErrorToString(e) == "Invalid event stream token provided: '" \o e.input \o "'"

TokenValidate(value) ==
    LET r == TokenFromStr(value)
    IN  IF r.ok THEN Ok(<<>>) ELSE Err(ErrorToString(r.err))

TokenUnsetPanic == "HAB_AUTOMATE_AUTH_TOKEN should be set"
TokenPanic == "HAB_AUTOMATE_AUTH_TOKEN should be validated at this point"

----------------------------------------------------------------------------
(* EventStreamConnectMethod *)

Immediate == [variant |-> "Immediate"]
Timeout(secs) == [variant |-> "Timeout", secs |-> secs]

\* from_str without the zero case
ConnectFromStrNoZero(s) ==
    LET secs == ParseU64(s)
    IN  IF ~secs.ok THEN secs ELSE Ok(Timeout(secs.val))

ConnectFromStr(s) ==
    LET secs == ParseU64(s)
    IN  IF ~secs.ok THEN secs
        ELSE IF secs.val = "0" THEN Ok(Immediate)
        ELSE Ok(Timeout(secs.val))

None == [some |-> FALSE]
Some(v) == [some |-> TRUE, val |-> v]

\* Duration::from_secs
DurationFromSecs(secs) == [secs |-> secs, nanos |-> 0]

ConnectInto(method) ==
    IF method.variant = "Immediate" THEN None
    ELSE Some(DurationFromSecs(method.secs))

----------------------------------------------------------------------------
(* The command line: the argument parser runs each argument's validator on *)
(* every raw value, and only a command line whose values all pass becomes  *)
(* the ArgMatches the typed values are constructed from.                   *)

Absent == [present |-> FALSE]
Present(v) == [present |-> TRUE, val |-> v]

MetaArgValues ==
    {"a=a", "a=b", "b=a", "key=value", "a=b=c", "a==b", "a=", "=a", "=", "a", ""}
TokenArgValues == {"", "a", "secret=1"}

RECURSIVE SeqsUpTo(_, _)
SeqsUpTo(S, n) ==
    IF n = 0 THEN {<<>>}
    ELSE LET shorter == SeqsUpTo(S, n - 1)
         IN  shorter \cup {Append(q, x) : q \in shorter, x \in S}

ClapGetMatches ==
    \E metas \in SeqsUpTo(MetaArgValues, MaxArgs),
       token \in {Absent} \cup {Present(v) : v \in TokenArgValues} :
        LET metaErrs  == {i \in DOMAIN metas : ~MetadataValidate(metas[i]).ok}
            tokenOk   == token.present => TokenValidate(token.val).ok
        IN  /\ cli.status = "unparsed"
            /\ cli' = IF metaErrs # {}
                      THEN LET i == CHOOSE j \in metaErrs : \A k \in metaErrs : j <= k
                           IN  [status |-> "usage_error",
                                msg |-> MetadataValidate(metas[i]).err]
                      ELSE IF ~tokenOk
                      THEN [status |-> "usage_error",
                            msg |-> TokenValidate(token.val).err]
                      ELSE [status |-> "matched", meta |-> metas, token |-> token]
            /\ UNCHANGED <<call, built, envVars>>

\* impl From<&ArgMatches> for EventStreamMetadata
RECURSIVE MapSplitValidated(_)
MapSplitValidated(raw_meta) ==
    IF raw_meta = <<>> THEN <<>>
    ELSE <<split_validated(raw_meta[1])>> \o MapSplitValidated(Tail(raw_meta))

NotBuilt == [status |-> "none"]

\* a panic ends the process: nothing is constructed after it
NoPanic == \A t \in DOMAIN built : built[t].status # "panicked"

MetadataFromMatches ==
    /\ cli.status = "matched"
    /\ NoPanic
    /\ built.EventStreamMetadata.status = "none"
    /\ LET raw_meta == cli.meta   \* values_of(ARG_NAME).unwrap_or_default()
           split    == MapSplitValidated(raw_meta)
       IN  built' = [built EXCEPT !.EventStreamMetadata =
             IF \E i \in DOMAIN split : split[i].panic
             THEN [status |-> "panicked", msg |-> MetadataPanic]
             ELSE [status |-> "built",
                   val |-> CollectMap(EmptyMap,
                                      [i \in DOMAIN split |-> split[i].val])]]
    /\ UNCHANGED <<call, cli, envVars>>

\* impl From<&ArgMatches> for AutomateAuthToken
TokenFromMatches ==
    /\ cli.status = "matched"
    /\ NoPanic
    /\ built.AutomateAuthToken.status = "none"
    /\ built' = [built EXCEPT !.AutomateAuthToken =
         IF ~cli.token.present
         THEN [status |-> "panicked", msg |-> TokenUnsetPanic]
         ELSE LET r == TokenFromStr(cli.token.val)
              IN  IF r.ok
                  THEN [status |-> "built", val |-> r.val]
                  ELSE [status |-> "panicked", msg |-> TokenPanic]]
    /\ UNCHANGED <<call, cli, envVars>>

----------------------------------------------------------------------------
(* Calls of the parsing and rendering functions on arbitrary strings. *)

NoCall == [fn |-> "none", input |-> ""]

CallMetadataValidate ==
    \E value \in Strings :
        /\ call' = [fn |-> "EventStreamMetadata::validate", input |-> value,
                    ret |-> MetadataValidate(value)]
        /\ UNCHANGED <<cli, built, envVars>>

CallTokenValidate ==
    \E value \in Strings :
        /\ call' = [fn |-> "AutomateAuthToken::validate", input |-> value,
                    ret |-> TokenValidate(value)]
        /\ UNCHANGED <<cli, built, envVars>>

CallTokenFromStr ==
    \E s \in Strings :
        /\ call' = [fn |-> "AutomateAuthToken::from_str", input |-> s,
                    ret |-> TokenFromStr(s)]
        /\ UNCHANGED <<cli, built, envVars>>

\* to_string() of the token the last from_str returned
CallTokenDisplay ==
    /\ call.fn = "AutomateAuthToken::from_str"
    /\ call.ret.ok
    /\ call' = [fn |-> "AutomateAuthToken::fmt", input |-> call.input,
                ret |-> TokenDisplay(call.ret.val)]
    /\ UNCHANGED <<cli, built, envVars>>

CallConnectFromStr ==
    \E s \in Strings :
        /\ call' = [fn |-> "EventStreamConnectMethod::from_str", input |-> s,
                    ret |-> ConnectFromStr(s)]
        /\ UNCHANGED <<cli, built, envVars>>

\* into() of the method the last from_str returned
CallConnectInto ==
    /\ call.fn = "EventStreamConnectMethod::from_str"
    /\ call.ret.ok
    /\ call' = [fn |-> "EventStreamConnectMethod::into", input |-> call.input,
                method |-> call.ret.val, ret |-> ConnectInto(call.ret.val)]
    /\ UNCHANGED <<cli, built, envVars>>

----------------------------------------------------------------------------
(* Socket addresses and the listen address types.  A listen address is a   *)
(* newtype over SocketAddr and is modelled as the socket address itself.   *)

Ipv4Addr(a, b, c, d) == [v |-> 4, parts |-> <<a, b, c, d>>]
Ipv6Addr(segments) == [v |-> 6, parts |-> segments]

Ipv6Unspecified == Ipv6Addr(<<0, 0, 0, 0, 0, 0, 0, 0>>)
Localhost == Ipv4Addr(127, 0, 0, 1)

SocketAddr(ip, port) == [ip |-> ip, port |-> port]

\* IpAddr::is_unspecified: 0.0.0.0 or ::
is_unspecified(ip) == \A i \in DOMAIN ip.parts : ip.parts[i] = 0

\* IpAddr::is_loopback: 127.0.0.0/8 or ::1
is_loopback(ip) ==
    IF ip.v = 4 THEN ip.parts[1] = 127
    ELSE ip.parts = <<0, 0, 0, 0, 0, 0, 0, 1>>

\* SocketAddr::set_ip, SocketAddr::set_port
set_ip(addr, new_ip) == [addr EXCEPT !.ip = new_ip]
set_port(addr, new_port) == [addr EXCEPT !.port = new_port]

GossipDefaultPort == 9638
HttpDefaultPort == 9631
CtlDefaultPort == 9632

\* the gossip default given the HTTP port
GossipListenAddrDefaultHttpPort == SocketAddr(Ipv4Addr(0, 0, 0, 0), HttpDefaultPort)

GossipListenAddrDefault == SocketAddr(Ipv4Addr(0, 0, 0, 0), GossipDefaultPort)
HttpListenAddrDefault == SocketAddr(Ipv4Addr(0, 0, 0, 0), HttpDefaultPort)
ListenCtlAddrDefault == SocketAddr(Localhost, CtlDefaultPort)

\* local_only on the ordinary loopback address
local_only_loopback == SocketAddr(Ipv4Addr(127, 0, 0, 1), GossipDefaultPort)

local_only == SocketAddr(Ipv4Addr(127, 0, 0, 2), GossipDefaultPort)

\* local_addr building the loopback address afresh, on the default port
local_addr_default_port(self) ==
    IF is_unspecified(self.ip)
    THEN SocketAddr(Ipv4Addr(127, 0, 0, 1), GossipDefaultPort)
    ELSE self

local_addr(self) ==
    LET addr == self   \* let mut addr = *self  (Copy)
    IN  IF is_unspecified(addr.ip)
        THEN set_ip(addr, Ipv4Addr(127, 0, 0, 1))
        ELSE addr

HttpListenAddrNew(ip, port) == SocketAddr(ip, port)
ListenCtlAddrNew(ip, port) == SocketAddr(ip, port)

\* the values the listen address variables take here, and what
\* str::parse::<SocketAddr>() makes of each
AddrEnvValues == {"192.168.1.1:9638", "[::]:9638", "not an address", "192.168.1.1"}

ParseSocketAddr(s) ==
    CASE s = "192.168.1.1:9638" -> Ok(SocketAddr(Ipv4Addr(192, 168, 1, 1), 9638))
      [] s = "[::]:9638"        -> Ok(SocketAddr(Ipv6Unspecified, 9638))
      [] s = "not an address"   -> Err("AddrParseError")
      [] s = "192.168.1.1"      -> Err("AddrParseError")

----------------------------------------------------------------------------
(* The test configuration type Thingie and the environment resolver. *)

Thingie(raw) == [thingie |-> raw]

ThingieDefault == Thingie("2112")

\* from_str with unwrap_or_default() in place of the ? operator
ThingieFromStrOrZero(s) ==
    LET raw == ParseU64(s)
    IN  IF raw.ok THEN Ok(Thingie(raw.val)) ELSE Ok(Thingie("0"))

ThingieFromStr(s) ==
    LET raw == ParseU64(s)
    IN  IF raw.ok THEN Ok(Thingie(raw.val)) ELSE raw

EnvVarNames ==
    {"HAB_TESTING_THINGIE", "HAB_LISTEN_GOSSIP", "HAB_LISTEN_HTTP", "HAB_LISTEN_CTL"}

\* every type reading the gossip variable
EnvvarOfGossip(T) == "HAB_LISTEN_GOSSIP"

\* const ENVVAR of each type
EnvvarOf(T) ==
    CASE T = "Thingie"          -> "HAB_TESTING_THINGIE"
      [] T = "GossipListenAddr" -> "HAB_LISTEN_GOSSIP"
      [] T = "HttpListenAddr"   -> "HAB_LISTEN_HTTP"
      [] T = "ListenCtlAddr"    -> "HAB_LISTEN_CTL"

DefaultOf(T) ==
    CASE T = "Thingie"          -> ThingieDefault
      [] T = "GossipListenAddr" -> GossipListenAddrDefault
      [] T = "HttpListenAddr"   -> HttpListenAddrDefault
      [] T = "ListenCtlAddr"    -> ListenCtlAddrDefault

FromStrOf(T, s) ==
    IF T = "Thingie" THEN ThingieFromStr(s) ELSE ParseSocketAddr(s)

\* env::Config::configured_value: the variable's parsed value, or the
\* default when the variable is absent or does not parse
ConfiguredValue(T, environment) ==
    LET var == environment[EnvvarOf(T)]
    IN  IF ~var.present THEN DefaultOf(T)
        ELSE LET parsed == FromStrOf(T, var.val)
             IN  IF parsed.ok THEN parsed.val ELSE DefaultOf(T)

----------------------------------------------------------------------------
(* State at start. *)

EmptyEnv == [v \in EnvVarNames |-> Absent]

TestIds == {"no_env_var_yields_default", "parsable_env_var_yields_parsed_value",
            "unparsable_env_var_yields_default"}

Unlocked == [holder |-> "none", original |-> Absent]

InitCliVars ==
    /\ call = NoCall
    /\ cli = [status |-> "unparsed"]
    /\ built = [EventStreamMetadata |-> NotBuilt, AutomateAuthToken |-> NotBuilt]

QuietEnvVars ==
    /\ env = EmptyEnv
    /\ lock = Unlocked
    /\ tests = [t \in TestIds |-> [at |-> 1, status |-> "running"]]
    /\ addrs = [k \in {"gossip", "http", "ctl"} |-> Absent]
    /\ last = [op |-> "none"]

----------------------------------------------------------------------------
(* Specification of the parsing and rendering functions: any of them is   *)
(* called on any input string.                                            *)

InitCalls == InitCliVars /\ QuietEnvVars

NextCalls ==
    \/ CallMetadataValidate
    \/ CallTokenValidate
    \/ CallTokenFromStr
    \/ CallTokenDisplay
    \/ CallConnectFromStr
    \/ CallConnectInto

SpecCalls == InitCalls /\ [][NextCalls]_vars

----------------------------------------------------------------------------
(* Specification of the command line: parsing with validation, then the   *)
(* construction of the typed values from the matches.                     *)

InitClap == InitCliVars /\ QuietEnvVars

NextClap ==
    \/ ClapGetMatches
    \/ MetadataFromMatches
    \/ TokenFromMatches

SpecClap == InitClap /\ [][NextClap]_vars

----------------------------------------------------------------------------
(* Specification of the listen addresses: the program holds one address   *)
(* of each kind; every operation the types offer may run on them, in any  *)
(* environment.                                                           *)

Kinds == {"gossip", "http", "ctl"}

TypeOf(kind) ==
    CASE kind = "gossip" -> "GossipListenAddr"
      [] kind = "http"   -> "HttpListenAddr"
      [] kind = "ctl"    -> "ListenCtlAddr"

\* the addresses and ports given to new(), set_ip() and set_port()
SomeIpv4 == {Ipv4Addr(192, 168, 1, 1), Ipv4Addr(0, 0, 0, 0)}
SomeIps == SomeIpv4 \cup {Ipv6Unspecified}
SomePorts == {80}

\* the environments the process may be started in: at most one of the
\* listen address variables is set
AddrEnvs ==
    {EmptyEnv} \cup
    {[EmptyEnv EXCEPT ![EnvvarOf(TypeOf(k))] = Present(v)] :
        k \in Kinds, v \in AddrEnvValues}

\* a constructor's value becomes the address of its kind
Construct(kind, op, value) ==
    /\ addrs' = [addrs EXCEPT ![kind] = Present(value)]
    /\ last' = [op |-> op, ret |-> value]

\* a method taking &self returns ret and leaves the address alone
Read(kind, op, ret) ==
    /\ last' = [op |-> op, self |-> addrs[kind].val, ret |-> ret]
    /\ UNCHANGED addrs

GossipDefault ==
    /\ Construct("gossip", "GossipListenAddr::default", GossipListenAddrDefault)
    /\ UNCHANGED <<env, lock, tests, cliVars>>

GossipLocalOnly ==
    /\ Construct("gossip", "GossipListenAddr::local_only", local_only)
    /\ UNCHANGED <<env, lock, tests, cliVars>>

HttpDefault ==
    /\ Construct("http", "HttpListenAddr::default", HttpListenAddrDefault)
    /\ UNCHANGED <<env, lock, tests, cliVars>>

HttpNew ==
    \E ip \in SomeIps, port \in SomePorts \cup {HttpDefaultPort} :
        /\ Construct("http", "HttpListenAddr::new", HttpListenAddrNew(ip, port))
        /\ UNCHANGED <<env, lock, tests, cliVars>>

CtlDefault ==
    /\ Construct("ctl", "ListenCtlAddr::default", ListenCtlAddrDefault)
    /\ UNCHANGED <<env, lock, tests, cliVars>>

CtlNew ==
    \E ip \in SomeIpv4, port \in SomePorts \cup {CtlDefaultPort} :
        /\ Construct("ctl", "ListenCtlAddr::new", ListenCtlAddrNew(ip, port))
        /\ UNCHANGED <<env, lock, tests, cliVars>>

\* T::configured_value() of a listen address type
AddrConfiguredValue ==
    \E kind \in Kinds :
        /\ addrs' = [addrs EXCEPT ![kind] =
                        Present(ConfiguredValue(TypeOf(kind), env))]
        /\ last' = [op |-> "configured_value", type |-> TypeOf(kind),
                    read |-> env[EnvvarOf(TypeOf(kind))],
                    ret |-> ConfiguredValue(TypeOf(kind), env)]
        /\ UNCHANGED <<env, lock, tests, cliVars>>

\* local_addr() mutating the address it is called on
GossipLocalAddrInPlace ==
    /\ addrs.gossip.present
    /\ addrs' = [addrs EXCEPT !.gossip = Present(local_addr(addrs.gossip.val))]
    /\ last' = [op |-> "GossipListenAddr::local_addr", self |-> addrs.gossip.val,
                ret |-> local_addr(addrs.gossip.val)]
    /\ UNCHANGED <<env, lock, tests, cliVars>>

GossipLocalAddr ==
    /\ addrs.gossip.present
    /\ Read("gossip", "GossipListenAddr::local_addr", local_addr(addrs.gossip.val))
    /\ UNCHANGED <<env, lock, tests, cliVars>>

\* deref_mut() and SocketAddr::set_ip on the &mut SocketAddr it returns
DerefMutSetIp ==
    \E kind \in {"gossip", "http"}, ip \in SomeIps :
        /\ addrs[kind].present
        /\ addrs' = [addrs EXCEPT ![kind] = Present(set_ip(addrs[kind].val, ip))]
        /\ last' = [op |-> "deref_mut", kind |-> kind, set |-> "ip"]
        /\ UNCHANGED <<env, lock, tests, cliVars>>

\* deref_mut() and SocketAddr::set_port on the &mut SocketAddr it returns
DerefMutSetPort ==
    \E kind \in {"gossip", "http"}, port \in SomePorts :
        /\ addrs[kind].present
        /\ addrs' = [addrs EXCEPT ![kind] = Present(set_port(addrs[kind].val, port))]
        /\ last' = [op |-> "deref_mut", kind |-> kind, set |-> "port"]
        /\ UNCHANGED <<env, lock, tests, cliVars>>

\* deref() and to_socket_addrs() of the gossip and HTTP addresses
ToSocketAddrs ==
    \E kind \in {"gossip", "http"} :
        /\ addrs[kind].present
        /\ Read(kind, "to_socket_addrs", <<addrs[kind].val>>)
        /\ UNCHANGED <<env, lock, tests, cliVars>>
    /\ UNCHANGED <<env, lock, tests, cliVars>>

CtlIp ==
    /\ addrs.ctl.present
    /\ Read("ctl", "ListenCtlAddr::ip", addrs.ctl.val.ip)
    /\ UNCHANGED <<env, lock, tests, cliVars>>

CtlPort ==
    /\ addrs.ctl.present
    /\ Read("ctl", "ListenCtlAddr::port", addrs.ctl.val.port)
    /\ UNCHANGED <<env, lock, tests, cliVars>>

InitAddr ==
    /\ InitCliVars
    /\ env \in AddrEnvs
    /\ lock = Unlocked
    /\ tests = [t \in TestIds |-> [at |-> 1, status |-> "running"]]
    /\ addrs = [k \in Kinds |-> Absent]
    /\ last = [op |-> "none"]

NextAddr ==
    \/ GossipDefault
    \/ GossipLocalOnly
    \/ HttpDefault
    \/ HttpNew
    \/ CtlDefault
    \/ CtlNew
    \/ AddrConfiguredValue
    \/ GossipLocalAddr
    \/ DerefMutSetIp
    \/ DerefMutSetPort
    \/ ToSocketAddrs
    \/ CtlIp
    \/ CtlPort

SpecAddr == InitAddr /\ [][NextAddr]_vars

----------------------------------------------------------------------------
(* Specification of the environment resolver: the three env_config tests   *)
(* run as concurrent threads of one process, each under the lock of       *)
(* HAB_TESTING_THINGIE; other call sites resolve Thingie and the gossip    *)
(* address at any moment, and the gossip variable changes under them.     *)

\* the values HAB_TESTING_THINGIE may hold when the process starts
ThingieEnvValues ==
    StrsUpTo({"7", "a"}, MaxLen) \cup
    {"123", "I'm not a number", "2112", "+2112", "02112",
     "18446744073709551615", "18446744073709551616"}

\* the statements of each test, in order, with their source lines
Program(t) ==
    CASE t = "no_env_var_yields_default" ->
           << [line |-> 361, stmt |-> "lock"],
              [line |-> 362, stmt |-> "assert_unset"],
              [line |-> 363, stmt |-> "assert_eq", expected |-> Thingie("2112")],
              [line |-> 364, stmt |-> "assert_eq", expected |-> ThingieDefault],
              [line |-> 365, stmt |-> "drop"] >>
      [] t = "parsable_env_var_yields_parsed_value" ->
           << [line |-> 369, stmt |-> "lock"],
              [line |-> 370, stmt |-> "set", value |-> "123"],
              [line |-> 371, stmt |-> "assert_eq", expected |-> Thingie("123")],
              [line |-> 372, stmt |-> "assert_ne", expected |-> ThingieDefault],
              [line |-> 373, stmt |-> "drop"] >>
      [] t = "unparsable_env_var_yields_default" ->
           << [line |-> 377, stmt |-> "lock"],
              [line |-> 378, stmt |-> "set", value |-> "I'm not a number"],
              [line |-> 379, stmt |-> "assert_eq", expected |-> ThingieDefault],
              [line |-> 380, stmt |-> "drop"] >>

\* the statement test t is about to run
Current(t) == Program(t)[tests[t].at]

Running(t, stmt) == tests[t].status = "running" /\ Current(t).stmt = stmt

Advance(t) == tests' = [tests EXCEPT ![t].at = @ + 1]

\* the lock taken without waiting for its holder
LockFreeAlways == TRUE

\* the mutex of locked_env_var! is free
LockFree == lock.holder = "none"

\* dropping the guard puts the variable back as it was found and frees the lock
DropGuard ==
    /\ env' = [env EXCEPT !["HAB_TESTING_THINGIE"] = lock.original]
    /\ lock' = Unlocked

\* a failed assertion panics: the test ends there and its guard is dropped
Panic(t) ==
    /\ tests' = [tests EXCEPT ![t].status = "failed"]
    /\ DropGuard

\* let envvar = lock_hab_testing_thingie();
TestLock ==
    \E t \in TestIds :
        /\ Running(t, "lock")
        /\ LockFree
        /\ lock' = [holder |-> t, original |-> env["HAB_TESTING_THINGIE"]]
        /\ Advance(t)
        /\ UNCHANGED <<env, addrs, last, cliVars>>

\* assert!(env::var("HAB_TESTING_THINGIE").is_err());
TestAssertUnset ==
    \E t \in TestIds :
        /\ Running(t, "assert_unset")
        /\ IF env["HAB_TESTING_THINGIE"].present
           THEN Panic(t)
           ELSE Advance(t) /\ UNCHANGED <<env, lock>>
        /\ UNCHANGED <<addrs, last, cliVars>>

\* envvar.set(value);
TestSet ==
    \E t \in TestIds :
        /\ Running(t, "set")
        /\ env' = [env EXCEPT !["HAB_TESTING_THINGIE"] = Present(Current(t).value)]
        /\ Advance(t)
        /\ UNCHANGED <<lock, addrs, last, cliVars>>

\* assert_eq!(Thingie::configured_value(), expected);
TestAssertEq ==
    \E t \in TestIds :
        /\ Running(t, "assert_eq")
        /\ IF ConfiguredValue("Thingie", env) = Current(t).expected
           THEN Advance(t) /\ UNCHANGED <<env, lock>>
           ELSE Panic(t)
        /\ UNCHANGED <<addrs, last, cliVars>>

\* assert_ne!(Thingie::configured_value(), expected);
TestAssertNe ==
    \E t \in TestIds :
        /\ Running(t, "assert_ne")
        /\ IF ConfiguredValue("Thingie", env) # Current(t).expected
           THEN Advance(t) /\ UNCHANGED <<env, lock>>
           ELSE Panic(t)
        /\ UNCHANGED <<addrs, last, cliVars>>

\* the end of the test: envvar goes out of scope
TestDrop ==
    \E t \in TestIds :
        /\ Running(t, "drop")
        /\ tests' = [tests EXCEPT ![t].status = "passed"]
        /\ DropGuard
        /\ UNCHANGED <<addrs, last, cliVars>>

\* T::configured_value() at a call site outside the tests
Resolve ==
    \E T \in {"Thingie", "GossipListenAddr"} :
        /\ last' = [op |-> "configured_value", type |-> T,
                    read |-> env[EnvvarOf(T)],
                    ret |-> ConfiguredValue(T, env)]
        /\ UNCHANGED <<env, lock, tests, addrs, cliVars>>

\* the gossip variable is set or removed by another part of the process
GossipVarChanges ==
    \E v \in {Absent} \cup {Present(x) : x \in AddrEnvValues} :
        /\ env' = [env EXCEPT !["HAB_LISTEN_GOSSIP"] = v]
        /\ UNCHANGED <<lock, tests, addrs, last, cliVars>>

InitEnv ==
    /\ InitCliVars
    /\ \E v \in {Absent} \cup {Present(x) : x \in ThingieEnvValues} :
          env = [EmptyEnv EXCEPT !["HAB_TESTING_THINGIE"] = v]
    /\ lock = Unlocked
    /\ tests = [t \in TestIds |-> [at |-> 1, status |-> "running"]]
    /\ addrs = [k \in Kinds |-> Absent]
    /\ last = [op |-> "none"]

NextEnv ==
    \/ TestLock
    \/ TestAssertUnset
    \/ TestSet
    \/ TestAssertEq
    \/ TestAssertNe
    \/ TestDrop
    \/ Resolve
    \/ GossipVarChanges

SpecEnv == InitEnv /\ [][NextEnv]_vars

----------------------------------------------------------------------------
(* Properties of the parsing and rendering functions (SpecCalls). *)

\* the positions of the separator in s
Separators(s) == {i \in 1..Len(s) : Char(s, i) = "="}

\* needle occurs in hay
Contains(hay, needle) ==
    \E i \in 1..(Len(hay) + 1) : SubSeq(hay, i, i + Len(needle) - 1) = needle

\* C2: EventStreamMetadata::validate accepts a token if and only if it holds
\* exactly one '=' with a non-empty key before it and a non-empty value after
\* it; every rejection carries a message that contains the rejected token.
C2_ValidateIffOnePair ==
    call.fn = "EventStreamMetadata::validate" =>
        LET s == call.input
        IN  /\ call.ret.ok <=> /\ Cardinality(Separators(s)) = 1
                               /\ 1 \notin Separators(s)
                               /\ Len(s) \notin Separators(s)
            /\ ~call.ret.ok => Contains(call.ret.err, s)

\* a token of three non-empty parts was validated and rejected
C2_Witness ==
    /\ call.fn = "EventStreamMetadata::validate"
    /\ call.input = "a=b=c"
    /\ ~call.ret.ok
    /\ Contains(call.ret.err, "a=b=c")

\* C3: from_str of a non-empty string succeeds and the token renders back
\* to exactly that string; from_str of the empty string fails with the
\* invalid-token error carrying the empty input; no token from from_str
\* holds the empty string.
C3_TokenRoundTrip ==
    /\ call.fn = "AutomateAuthToken::from_str" =>
          /\ call.input # "" => call.ret.ok /\ call.ret.val.inner # ""
          /\ call.input = "" =>
                /\ ~call.ret.ok
                /\ call.ret.err.error = "InvalidEventStreamToken"
                /\ call.ret.err.input = ""
    /\ call.fn = "AutomateAuthToken::fmt" => call.ret = call.input

\* a parsed token was rendered
C3_Witness ==
    /\ call.fn = "AutomateAuthToken::fmt"
    /\ call.input = "I'm not a number"
    /\ call.ret = "I'm not a number"

\* s is an optional '+' followed by one or more decimal digits
IsNumeral(s) ==
    LET d == IF s # "" /\ Char(s, 1) = "+" THEN Suffix(s, 2) ELSE s
    IN  d # "" /\ \A i \in 1..Len(d) : Char(d, i) \in Digits

\* the decimal numeral of the integer s denotes: sign and leading zeros off
Canonical(s) ==
    LET d == IF Char(s, 1) = "+" THEN Suffix(s, 2) ELSE s
        nonzero == {i \in 1..Len(d) : Char(d, i) # "0"}
    IN  IF nonzero = {} THEN "0"
        ELSE Suffix(d, CHOOSE i \in nonzero : \A k \in nonzero : i <= k)

\* n <= 2^64 - 1, for a canonical numeral n
InU64Range(n) ==
    \/ Len(n) < Len(U64Max)
    \/ /\ Len(n) = Len(U64Max)
       /\ \/ n = U64Max
          \/ \E i \in 1..Len(n) :
                /\ SubSeq(n, 1, i - 1) = SubSeq(U64Max, 1, i - 1)
                /\ DigitVal(Char(n, i)) < DigitVal(Char(U64Max, i))

ParseIntErrorKinds == {"Empty", "InvalidDigit", "PosOverflow"}

\* C4: an input denoting 0 parses to Immediate, which converts to no
\* duration; an input denoting another integer n of the u64 range parses to
\* Timeout of n seconds, which converts to a duration of exactly n seconds;
\* any other input fails with the integer-parse error; parsing never yields
\* Timeout with secs = 0.
C4_ConnectMethodParse ==
    /\ call.fn = "EventStreamConnectMethod::from_str" =>
          LET s == call.input
          IN  IF IsNumeral(s) /\ InU64Range(Canonical(s))
              THEN /\ call.ret.ok
                   /\ call.ret.val = IF Canonical(s) = "0" THEN Immediate
                                     ELSE Timeout(Canonical(s))
              ELSE /\ ~call.ret.ok
                   /\ call.ret.err \in ParseIntErrorKinds
    /\ call.fn = "EventStreamConnectMethod::into" =>
          IF Canonical(call.input) = "0"
          THEN call.ret = None
          ELSE call.ret = Some([secs |-> Canonical(call.input), nanos |-> 0])

\* the largest u64 was parsed and converted to its duration
C4_Witness ==
    /\ call.fn = "EventStreamConnectMethod::into"
    /\ call.input = "18446744073709551615"
    /\ call.ret = Some([secs |-> "18446744073709551615", nanos |-> 0])

----------------------------------------------------------------------------
(* Properties of the command line (SpecClap). *)

\* the key of a validated "key=value" token and its value
KeyOf(token) == SubSeq(token, 1, (CHOOSE i \in Separators(token) : TRUE) - 1)
ValueOf(token) == Suffix(token, (CHOOSE i \in Separators(token) : TRUE) + 1)

\* C8: the values the parser's validation accepted are constructed without
\* a failure: the metadata map holds exactly the key and value of each
\* accepted token (the last token of a key giving its value), the token is
\* the accepted string, and the "should be validated" panics never happen.
C8_ValidatedConstructs ==
    /\ built.EventStreamMetadata.status # "panicked"
    /\ built.EventStreamMetadata.status = "built" =>
          LET m == built.EventStreamMetadata.val
              raw == cli.meta
          IN  /\ \A i \in DOMAIN raw : Cardinality(Separators(raw[i])) = 1
              /\ DOMAIN m = {KeyOf(raw[i]) : i \in DOMAIN raw}
              /\ \A i \in DOMAIN raw :
                    (\A j \in DOMAIN raw : j > i => KeyOf(raw[j]) # KeyOf(raw[i]))
                        => m[KeyOf(raw[i])] = ValueOf(raw[i])
    /\ built.AutomateAuthToken.status = "panicked" =>
          /\ ~cli.token.present
          /\ built.AutomateAuthToken.msg = TokenUnsetPanic
    /\ built.AutomateAuthToken.status = "built" =>
          built.AutomateAuthToken.val.inner = cli.token.val

\* two accepted tokens of one key and an accepted token were constructed
C8_Witness ==
    /\ cli.status = "matched"
    /\ cli.meta = <<"a=a", "a=b">>
    /\ built.EventStreamMetadata.status = "built"
    /\ built.EventStreamMetadata.val["a"] = "b"
    /\ built.AutomateAuthToken.status = "built"
    /\ built.AutomateAuthToken.val.inner = "secret=1"

----------------------------------------------------------------------------
(* Properties of the listen addresses (SpecAddr). *)

Unspecified == {Ipv4Addr(0, 0, 0, 0), Ipv6Unspecified}

\* C5: local_addr() keeps the port; an unspecified IP becomes the IPv4
\* loopback 127.0.0.1, and any other address is returned as it is.
C5_LocalAddr ==
    last.op = "GossipListenAddr::local_addr" =>
        /\ last.ret.port = last.self.port
        /\ last.self.ip \in Unspecified =>
              /\ last.ret.ip = Ipv4Addr(127, 0, 0, 1)
              /\ is_loopback(last.ret.ip)
        /\ last.self.ip \notin Unspecified => last.ret = last.self

\* local_addr() ran on an unspecified address with another port than the default
C5_Witness ==
    /\ last.op = "GossipListenAddr::local_addr"
    /\ last.self = SocketAddr(Ipv4Addr(0, 0, 0, 0), 80)
    /\ last.ret = SocketAddr(Ipv4Addr(127, 0, 0, 1), 80)

\* C6: local_only() yields 127.0.0.2 on port 9638, never 127.0.0.1, in
\* every environment and after every other operation.
C6_LocalOnly ==
    last.op = "GossipListenAddr::local_only" =>
        /\ last.ret = SocketAddr(Ipv4Addr(127, 0, 0, 2), 9638)
        /\ last.ret.ip # Ipv4Addr(127, 0, 0, 1)
        /\ addrs.gossip = Present(last.ret)

\* local_only() ran with the gossip variable set, after other addresses
\* had been constructed and changed
C6_Witness ==
    /\ last.op = "GossipListenAddr::local_only"
    /\ env["HAB_LISTEN_GOSSIP"] = Present("192.168.1.1:9638")
    /\ addrs.http = Present(SocketAddr(Ipv4Addr(192, 168, 1, 1), 80))
    /\ addrs.ctl.present

\* C7: the defaults are 0.0.0.0:9638 (gossip), 0.0.0.0:9631 (HTTP) and
\* 127.0.0.1:9632 (control); the three ports differ from one another.
C7_Defaults ==
    /\ last.op = "GossipListenAddr::default" =>
          last.ret = SocketAddr(Ipv4Addr(0, 0, 0, 0), 9638)
    /\ last.op = "HttpListenAddr::default" =>
          last.ret = SocketAddr(Ipv4Addr(0, 0, 0, 0), 9631)
    /\ last.op = "ListenCtlAddr::default" =>
          last.ret = SocketAddr(Ipv4Addr(127, 0, 0, 1), 9632)
    /\ last.op \in {"GossipListenAddr::default", "HttpListenAddr::default",
                    "ListenCtlAddr::default"} =>
          Cardinality({GossipListenAddrDefault.port, HttpListenAddrDefault.port,
                       ListenCtlAddrDefault.port}) = 3

\* the three defaults were constructed, the control one last
C7_Witness ==
    /\ last.op = "ListenCtlAddr::default"
    /\ addrs.ctl = Present(SocketAddr(Ipv4Addr(127, 0, 0, 1), 9632))
    /\ addrs.gossip = Present(SocketAddr(Ipv4Addr(0, 0, 0, 0), 9638))
    /\ addrs.http = Present(SocketAddr(Ipv4Addr(0, 0, 0, 0), 9631))

Constructors ==
    {"GossipListenAddr::default", "GossipListenAddr::local_only",
     "HttpListenAddr::default", "HttpListenAddr::new",
     "ListenCtlAddr::default", "ListenCtlAddr::new", "configured_value"}

\* C10 as claimed: once an address is constructed, only the construction of
\* another address in its place changes its IP or port.
C10_Immutable ==
    [][\A k \in Kinds :
          addrs[k].present /\ addrs'[k] # addrs[k] => last'.op \in Constructors]_vars

\* C10 as amended: local_addr() leaves the address it is called on unchanged
\* and returns a new value; a control address is never changed; a gossip or
\* HTTP address is changed only through deref_mut().
C10_ImmutableButDerefMut ==
    [][/\ last'.op = "GossipListenAddr::local_addr" =>
             /\ addrs' = addrs
             /\ last'.self = addrs.gossip.val
       /\ \A k \in Kinds :
             addrs[k].present /\ addrs'[k] # addrs[k] =>
                \/ last'.op \in Constructors
                \/ /\ last'.op = "deref_mut"
                   /\ last'.kind = k
                   /\ k \in {"gossip", "http"}]_vars

\* local_addr() returned the loopback address and the gossip address is
\* still the unspecified one
C10_Witness ==
    /\ last.op = "GossipListenAddr::local_addr"
    /\ last.ret = SocketAddr(Ipv4Addr(127, 0, 0, 1), 9638)
    /\ addrs.gossip = Present(SocketAddr(Ipv4Addr(0, 0, 0, 0), 9638))

----------------------------------------------------------------------------
(* Properties of the environment resolver (SpecEnv). *)

\* C1: configured_value() yields the default when the variable is absent,
\* the default when its value does not parse, and the parsed value when it
\* parses, which differs from the default whenever the parsed value does.
C1_ResolveOrDefault ==
    last.op = "configured_value" =>
        LET r == last.read
        IN  IF last.type = "Thingie"
            THEN IF r.present /\ IsNumeral(r.val) /\ InU64Range(Canonical(r.val))
                 THEN /\ last.ret = Thingie(Canonical(r.val))
                      /\ Canonical(r.val) # "2112" => last.ret # ThingieDefault
                 ELSE last.ret = Thingie("2112")
            ELSE IF r = Present("192.168.1.1:9638")
                 THEN /\ last.ret = SocketAddr(Ipv4Addr(192, 168, 1, 1), 9638)
                      /\ last.ret # GossipListenAddrDefault
                 ELSE IF r = Present("[::]:9638")
                 THEN last.ret = SocketAddr(Ipv6Unspecified, 9638)
                 ELSE last.ret = SocketAddr(Ipv4Addr(0, 0, 0, 0), 9638)

\* Thingie was resolved with its variable set to a string that is no number
C1_Witness ==
    /\ last.op = "configured_value"
    /\ last.type = "Thingie"
    /\ last.read = Present("I'm not a number")
    /\ last.ret = Thingie("2112")

\* the step is a call of configured_value()
ResolveStep ==
    /\ last'.op = "configured_value"
    /\ last.op = "configured_value" => last' # last

\* C9: a resolution of T writes nothing and reads T's own variable only:
\* its result is the same whatever the other variables hold at that moment;
\* and every test, holding the lock, observes the value it set (no
\* assertion about configured_value() fails; only the test that expects the
\* variable to be unset fails, when the process was started with it set).
C9_NoInterference ==
    [][/\ ResolveStep =>
             LET own == IF last'.type = "Thingie" THEN "HAB_TESTING_THINGIE"
                        ELSE "HAB_LISTEN_GOSSIP"
             IN  /\ env' = env
                 /\ UNCHANGED <<lock, tests, addrs>>
                 /\ last'.read = env[own]
                 /\ \A w \in EnvVarNames \ {own} :
                       \A x \in {Absent} \cup {Present(v) : v \in AddrEnvValues} :
                          ConfiguredValue(last'.type, [env EXCEPT ![w] = x]) = last'.ret
       /\ \A t \in TestIds :
             tests'[t].status = "failed" => Program(t)[tests'[t].at].line = 362]_vars

\* one test holds the lock and has observed the value it set, another waits
\* for the lock, and the gossip address was resolved and its variable changed
C9_Witness ==
    /\ lock.holder = "parsable_env_var_yields_parsed_value"
    /\ tests["parsable_env_var_yields_parsed_value"].at = 4
    /\ tests["unparsable_env_var_yields_default"].at = 1
    /\ tests["no_env_var_yields_default"].status = "passed"
    /\ last.op = "configured_value"
    /\ last.type = "GossipListenAddr"
    /\ last.ret = SocketAddr(Ipv4Addr(192, 168, 1, 1), 9638)
    /\ env["HAB_LISTEN_GOSSIP"] = Absent

====
